---- MODULE Spec2Model ----
(***************************************************************************)
(* Model of services/geminiService.ts: the request/response adapter        *)
(* between the UI and the generative-AI vendor SDK.                        *)
(*                                                                         *)
(* Strings are sequences of tokens (TLA+ strings), so that concatenation,  *)
(* trim, startsWith, split and JSON.parse are computed, not assumed.       *)
(* JavaScript objects are records; an absent (undefined) property is a     *)
(* field that is not in the record's DOMAIN.                               *)
(***************************************************************************)
EXTENDS Naturals, Sequences, FiniteSets, TLC

VARIABLES
    aistudio,      \* window.aistudio: the host capability surface
    keySelected,   \* host state: what hasSelectedApiKey() resolves to
    apiKey,        \* process.env.API_KEY
    nextHandle,    \* identity of the next object built by `new GoogleGenAI`
    console,       \* calls whose catch block wrote to console.error
    op,            \* per call: the exported operation invoked
    args,          \* per call: its arguments
    pc,            \* per call: where the async function is suspended
    client,        \* per call: the `ai` handle returned by getAI()
    currentParts,  \* per call: streamChat's local currentParts
    callerHistory, \* per call: the caller's history array after the call
    hostCalls,     \* per call: calls made on window.aistudio, with results
    requests,      \* per call: vendor requests issued, in order
    settled,       \* per call: settlement of the vendor promise
    outcome        \* per call: settlement of the operation's own promise

vars == <<aistudio, keySelected, apiKey, nextHandle, console, op, args, pc,
          client, currentParts, callerHistory, hostCalls, requests, settled,
          outcome>>

----------------------------------------------------------------------------
(* Bounds of the model *)

NumCalls == 2
MaxAtt == 2
MaxMsgLen == 2
MaxHist == 2
MaxParts == 2
MaxTextLen == 3

Calls == 1..NumCalls

SeqsUpTo(S, n) == UNION {[1..k -> S] : k \in 0..n}

----------------------------------------------------------------------------
(* JavaScript strings and values *)

Whitespace == {" ", "\n"}

RECURSIVE TrimStart(_)
TrimStart(s) ==
    IF s # <<>> /\ Head(s) \in Whitespace THEN TrimStart(Tail(s)) ELSE s

RECURSIVE TrimEnd(_)
TrimEnd(s) ==
    IF s # <<>> /\ s[Len(s)] \in Whitespace
    THEN TrimEnd(SubSeq(s, 1, Len(s) - 1))
    ELSE s

\* String.prototype.trim
Trim(s) == TrimEnd(TrimStart(s))

\* truthiness of a string: only "" is falsy
Truthy(s) == s # <<>>

\* String.prototype.startsWith
StartsWith(s, prefix) ==
    /\ Len(s) >= Len(prefix)
    /\ SubSeq(s, 1, Len(prefix)) = prefix

\* index of the first occurrence of tok in s at or after i; Len(s)+1 if none
RECURSIVE IndexFrom(_, _, _)
IndexFrom(s, tok, i) ==
    IF i > Len(s) THEN Len(s) + 1
    ELSE IF s[i] = tok THEN i
    ELSE IndexFrom(s, tok, i + 1)

\* s.split(',')[1]: the text between the first and the second comma;
\* undefined (no "data" field at all) when s has no comma
SplitSecond(s) ==
    LET i == IndexFrom(s, ",", 1)
        j == IndexFrom(s, ",", i + 1)
    IN IF i > Len(s) THEN [absent |-> TRUE]
       ELSE [data |-> SubSeq(s, i + 1, j - 1)]

Has(obj, f) == f \in DOMAIN obj

Null == [t |-> "null"]
Array(items) == [t |-> "array", items |-> items]

Return(v) == [kind |-> "return", value |-> v]
Throw(e) == [kind |-> "throw", error |-> e]
Pending == [kind |-> "pending"]

Error(msg) == [name |-> "Error", message |-> msg]
KeyRequiredError == Error("API Key selection is required for this feature.")
SlideStructureError == Error("Failed to generate valid slide structure.")

----------------------------------------------------------------------------
(* streamChat: the current turn's parts and the history projection *)

PdfMime == <<"application", "/", "pdf">>
ImagePrefix == <<"image", "/">>

InlinePart(mime, data) == [inlineData |-> [mimeType |-> mime, data |-> data]]
TextPart(text) == [text |-> text]

\* the PDF branch left out: a PDF falls through to the text branch
PartFor_noPdf(att) ==
    IF StartsWith(att.mimeType, ImagePrefix)
    THEN InlinePart(att.mimeType, att.data)
    ELSE TextPart(<<"\n[Context from file \"", att.name, "\":]\n">>
                  \o att.data \o <<"\n">>)

PartFor(att) ==
    IF att.mimeType = PdfMime
    THEN InlinePart(PdfMime, att.data)
    ELSE IF StartsWith(att.mimeType, ImagePrefix)
    THEN InlinePart(att.mimeType, att.data)
    ELSE TextPart(<<"\n[Context from file \"", att.name, "\":]\n">>
                  \o att.data \o <<"\n">>)

AttachmentParts(attachments) ==
    [i \in 1..Len(attachments) |-> PartFor(attachments[i])]

PromptParts(message) ==
    IF Truthy(Trim(message)) THEN <<TextPart(message)>> ELSE <<>>

BuildCurrentParts(message, attachments) ==
    AttachmentParts(attachments) \o PromptParts(message)

\* the turn passed through as it is, extra fields included
SanitizeTurn_asIs(h) == h

SanitizeTurn(h) == [role |-> h.role, parts |-> h.parts]

SanitizeHistory(history) ==
    [i \in 1..Len(history) |-> SanitizeTurn(history[i])]

\* Array.prototype.map builds a new array; the source array is not written
HistoryAfterMap(history) == history

Tools(grounding) ==
    IF grounding.search THEN <<[googleSearch |-> TRUE]>> ELSE <<>>

ChatConfig(tools) ==
    IF Len(tools) > 0 THEN [tools |-> tools] ELSE [none |-> TRUE]

\* a lone text part is sent as a bare string, anything else as the array
OutgoingMessage(parts) ==
    IF Len(parts) = 1 /\ Has(parts[1], "text") /\ Truthy(parts[1].text)
    THEN [text |-> parts[1].text]
    ELSE [parts |-> parts]

ChatRequest(a, handle) ==
    [api |-> "chats.sendMessageStream",
     client |-> handle,
     model |-> a.modelId,
     history |-> SanitizeHistory(a.history),
     config |-> ChatConfig(Tools(a.grounding)),
     message |-> OutgoingMessage(BuildCurrentParts(a.message, a.attachments))]

----------------------------------------------------------------------------
(* generateImage / editImage: requests and the unpacking of the response *)

ImageRequest(a, handle) ==
    [api |-> "models.generateContent",
     client |-> handle,
     model |-> "GEMINI_3_PRO_IMAGE",
     contents |-> [parts |-> <<TextPart(a.prompt)>>],
     config |-> [imageConfig |-> [imageSize |-> a.size, aspectRatio |-> "1:1"]]]

EditInlineData(base64Image) ==
    LET sp == SplitSecond(base64Image)
    IN IF Has(sp, "data")
       THEN [mimeType |-> <<"image", "/", "jpeg">>, data |-> sp.data]
       ELSE [mimeType |-> <<"image", "/", "jpeg">>]

EditRequest(a, handle) ==
    [api |-> "models.generateContent",
     client |-> handle,
     model |-> "GEMINI_2_5_FLASH_IMAGE",
     contents |-> [parts |-> <<[inlineData |-> EditInlineData(a.base64Image)],
                               TextPart(a.prompt)>>]]

\* the last candidate read instead of the first
FirstCandidateParts_last(response) ==
    IF /\ Has(response, "candidates")
       /\ Len(response.candidates) >= 1
       /\ Has(response.candidates[Len(response.candidates)], "content")
       /\ Has(response.candidates[Len(response.candidates)].content, "parts")
    THEN response.candidates[Len(response.candidates)].content.parts
    ELSE <<>>

\* response.candidates?.[0]?.content?.parts, or <<>> when the chain is undefined
FirstCandidateParts(response) ==
    IF /\ Has(response, "candidates")
       /\ Len(response.candidates) >= 1
       /\ Has(response.candidates[1], "content")
       /\ Has(response.candidates[1].content, "parts")
    THEN response.candidates[1].content.parts
    ELSE <<>>

\* part.inlineData && part.inlineData.data
HasInlineData(part) ==
    /\ Has(part, "inlineData")
    /\ Has(part.inlineData, "data")
    /\ Truthy(part.inlineData.data)

DataUri(data) == <<"data:image/png;base64,">> \o data

RECURSIVE PushImages(_, _)
PushImages(images, parts) ==
    IF parts = <<>> THEN images
    ELSE PushImages(IF HasInlineData(Head(parts))
                    THEN Append(images, DataUri(Head(parts).inlineData.data))
                    ELSE images,
                    Tail(parts))

\* null instead of an empty array when nothing was extracted
ExtractImages_nullable(response) ==
    IF PushImages(<<>>, FirstCandidateParts(response)) = <<>>
    THEN Null
    ELSE Array(PushImages(<<>>, FirstCandidateParts(response)))

ExtractImages(response) == Array(PushImages(<<>>, FirstCandidateParts(response)))

----------------------------------------------------------------------------
(* generateSlideContent: request and JSON.parse of the response text *)

SlideRequest(a, handle) ==
    [api |-> "models.generateContent",
     client |-> handle,
     model |-> "GEMINI_3_FLASH",
     contents |-> <<"Create a McKinsey-style ... outline about: ", a.topic,
                    ". I need exactly ", a.count, " slides. ... Output JSON.">>,
     config |-> [responseMimeType |-> "application/json",
                 responseSchema |-> "PresentationStructure"]]

JsonWhitespace == {" ", "\n"}

RECURSIVE SkipWs(_, _)
SkipWs(text, i) ==
    IF i <= Len(text) /\ text[i] \in JsonWhitespace THEN SkipWs(text, i + 1) ELSE i

ParseFail == [ok |-> FALSE]
ParseOk(v, next) == [ok |-> TRUE, value |-> v, next |-> next]

\* a JSON value starting at text[i]: null, {}, [] or a one-element array
RECURSIVE ParseValue(_, _)
ParseValue(text, i) ==
    LET j == SkipWs(text, i)
    IN IF j > Len(text) THEN ParseFail
       ELSE IF text[j] = "null" THEN ParseOk(Null, j + 1)
       ELSE IF text[j] = "{" THEN
            LET k == SkipWs(text, j + 1)
            IN IF k <= Len(text) /\ text[k] = "}"
               THEN ParseOk([t |-> "object"], k + 1)
               ELSE ParseFail
       ELSE IF text[j] = "[" THEN
            LET k == SkipWs(text, j + 1)
            IN IF k <= Len(text) /\ text[k] = "]"
               THEN ParseOk(Array(<<>>), k + 1)
               ELSE LET inner == ParseValue(text, k)
                    IN IF ~inner.ok THEN ParseFail
                       ELSE LET m == SkipWs(text, inner.next)
                            IN IF m <= Len(text) /\ text[m] = "]"
                               THEN ParseOk(Array(<<inner.value>>), m + 1)
                               ELSE ParseFail
       ELSE ParseFail

\* JSON.parse: the whole text must be one value, surrounding whitespace allowed
JsonParse(text) ==
    LET r == ParseValue(text, 1)
    IN IF r.ok /\ SkipWs(text, r.next) > Len(text)
       THEN [ok |-> TRUE, value |-> r.value]
       ELSE ParseFail

\* if (response.text)
HasText(response) == Has(response, "text") /\ Truthy(response.text)

\* the catch block swallows the parse failure and falls through to null
ParseSlides_swallow(response) ==
    IF HasText(response)
    THEN LET r == JsonParse(response.text)
         IN IF r.ok THEN Return(r.value) ELSE Return(Null)
    ELSE Return(Null)

ParseSlides(response) ==
    IF HasText(response)
    THEN LET r == JsonParse(response.text)
         IN IF r.ok THEN Return(r.value) ELSE Throw(SlideStructureError)
    ELSE Return(Null)

\* the catch block logs before it rethrows
LogsParseFailure(response) ==
    HasText(response) /\ ~JsonParse(response.text).ok

----------------------------------------------------------------------------
(* analyzeStock *)

StockRequest(a, handle) ==
    [api |-> "models.generateContent",
     client |-> handle,
     model |-> "GEMINI_3_PRO",
     contents |-> <<"Perform a deep-dive investment analysis on ", a.ticker,
                    ". ...">>,
     config |-> [tools |-> <<[googleSearch |-> TRUE]>>,
                 systemInstruction |-> "You are a world-class financial analyst. ..."]]

----------------------------------------------------------------------------
(* The host surface, the client handle and the vendor *)

HostFns == {"hasSelectedApiKey", "openSelectKey"}

NoSurface == [present |-> FALSE, fns |-> {}]

FullSurface == [present |-> TRUE, fns |-> HostFns]

Surfaces == {NoSurface} \cup {[present |-> TRUE, fns |-> F] : F \in SUBSET HostFns}

\* only one of the two host functions probed
SurfacePresent_hasKeyOnly ==
    /\ aistudio.present
    /\ "hasSelectedApiKey" \in aistudio.fns

\* window.aistudio && window.aistudio.hasSelectedApiKey && window.aistudio.openSelectKey
SurfacePresent ==
    /\ aistudio.present
    /\ "hasSelectedApiKey" \in aistudio.fns
    /\ "openSelectKey" \in aistudio.fns

\* the dialog opened whatever the first answer
NeedsDialog_always(hasKey) == TRUE

\* if (!hasKey): the dialog is opened
NeedsDialog(hasKey) == ~hasKey

\* the re-check's answer ignored
RecheckFails_never(hasKeyNow) == FALSE

\* if (!hasKeyNow): the gate throws
RecheckFails(hasKeyNow) == ~hasKeyNow

\* new GoogleGenAI({ apiKey: process.env.API_KEY })
getAI == [id |-> nextHandle, apiKey |-> apiKey]

NoClient == [id |-> 0, apiKey |-> ""]
NoArgs == [none |-> TRUE]
Unsettled == [status |-> "pending"]
Fulfilled(v) == [status |-> "fulfilled", value |-> v]
RejectedWith(e) == [status |-> "rejected", reason |-> e]

\* the rejection caught and turned into an empty result
Rejected_swallowed(reason) == Return(Array(<<>>))

\* an awaited vendor promise that rejects: no try/catch surrounds the await
Rejected(reason) == Throw(reason)

VendorErrors == {[name |-> "ApiError", message |-> "503 UNAVAILABLE"],
                 [name |-> "TypeError", message |-> "Failed to fetch"]}

ChatStreams == {[t |-> "stream", chunks |-> <<"Hel", "lo">>]}

StockResponses == {[text |-> <<"## Verdict: BUY">>,
                    groundingMetadata |-> <<"https://example.com">>]}

ResponsesOf(o, imageResponses, textResponses) ==
    CASE o = "streamChat" -> ChatStreams
      [] o \in {"generateImage", "editImage"} -> imageResponses
      [] o = "generateSlideContent" -> textResponses
      [] o = "analyzeStock" -> StockResponses

Called(fn) == [fn |-> fn]
Answered(fn, result) == [fn |-> fn, result |-> result]

\* the last host call of c, which is the one being awaited, gets its result
AnswerLast(calls, result) ==
    [calls EXCEPT ![Len(calls)] = Answered(calls[Len(calls)].fn, result)]

----------------------------------------------------------------------------
(* Initial state *)

Init ==
    /\ aistudio \in Surfaces
    /\ keySelected \in (IF SurfacePresent THEN BOOLEAN ELSE {FALSE})
    /\ apiKey = "env-key"
    /\ nextHandle = 1
    /\ console = {}
    /\ op = [c \in Calls |-> "none"]
    /\ args = [c \in Calls |-> NoArgs]
    /\ pc = [c \in Calls |-> "idle"]
    /\ client = [c \in Calls |-> NoClient]
    /\ currentParts = [c \in Calls |-> <<>>]
    /\ callerHistory = [c \in Calls |-> <<>>]
    /\ hostCalls = [c \in Calls |-> <<>>]
    /\ requests = [c \in Calls |-> <<>>]
    /\ settled = [c \in Calls |-> Unsettled]
    /\ outcome = [c \in Calls |-> Pending]

hostVars == <<aistudio, keySelected, apiKey>>

----------------------------------------------------------------------------
(* Operations: the synchronous prefix of each exported function *)

\* streamChat runs to sendMessageStream without suspending
StreamChat(c, modelIds, histories, messages, attachmentLists, groundings) ==
    /\ pc[c] = "idle"
    /\ \E m \in modelIds, h \in histories, msg \in messages,
          atts \in attachmentLists, g \in groundings :
          LET a == [modelId |-> m, history |-> h, message |-> msg,
                    attachments |-> atts, grounding |-> g]
              ai == getAI
          IN /\ op' = [op EXCEPT ![c] = "streamChat"]
             /\ args' = [args EXCEPT ![c] = a]
             /\ client' = [client EXCEPT ![c] = ai]
             /\ nextHandle' = nextHandle + 1
             /\ currentParts' = [currentParts EXCEPT ![c] = BuildCurrentParts(msg, atts)]
             /\ callerHistory' = [callerHistory EXCEPT ![c] = HistoryAfterMap(h)]
             /\ requests' = [requests EXCEPT ![c] = Append(@, ChatRequest(a, ai))]
    /\ pc' = [pc EXCEPT ![c] = "awaitVendor"]
    /\ UNCHANGED <<hostVars, console, hostCalls, settled, outcome>>

\* generateImage enters ensureApiKey and suspends at its first await
GenerateImage(c, prompts, sizes) ==
    /\ pc[c] = "idle"
    /\ \E p \in prompts, sz \in sizes :
          args' = [args EXCEPT ![c] = [prompt |-> p, size |-> sz]]
    /\ op' = [op EXCEPT ![c] = "generateImage"]
    /\ IF SurfacePresent
       THEN /\ hostCalls' = [hostCalls EXCEPT ![c] = Append(@, Called("hasSelectedApiKey"))]
            /\ pc' = [pc EXCEPT ![c] = "awaitHasKey"]
       ELSE /\ hostCalls' = hostCalls
            /\ pc' = [pc EXCEPT ![c] = "gatePassed"]
    /\ UNCHANGED <<hostVars, nextHandle, console, client, currentParts,
                   callerHistory, requests, settled, outcome>>

\* ensureApiKey: hasSelectedApiKey() resolved
HasKeyResolved(c) ==
    /\ pc[c] = "awaitHasKey"
    /\ LET hasKey == keySelected
       IN IF NeedsDialog(hasKey)
          THEN /\ hostCalls' = [hostCalls EXCEPT ![c] =
                      Append(AnswerLast(@, hasKey), Called("openSelectKey"))]
               /\ pc' = [pc EXCEPT ![c] = "awaitDialog"]
          ELSE /\ hostCalls' = [hostCalls EXCEPT ![c] = AnswerLast(@, hasKey)]
               /\ pc' = [pc EXCEPT ![c] = "gatePassed"]
    /\ UNCHANGED <<hostVars, nextHandle, console, op, args, client, currentParts,
                   callerHistory, requests, settled, outcome>>

\* ensureApiKey: openSelectKey() resolved; the user has or has not picked a key
DialogResolved(c) ==
    /\ pc[c] = "awaitDialog"
    /\ \E picked \in BOOLEAN : keySelected' = (keySelected \/ picked)
    /\ hostCalls' = [hostCalls EXCEPT ![c] =
           Append(AnswerLast(@, TRUE), Called("hasSelectedApiKey"))]
    /\ pc' = [pc EXCEPT ![c] = "awaitRecheck"]
    /\ UNCHANGED <<aistudio, apiKey, nextHandle, console, op, args, client,
                   currentParts, callerHistory, requests, settled, outcome>>

\* ensureApiKey: the re-check resolved
RecheckResolved(c) ==
    /\ pc[c] = "awaitRecheck"
    /\ LET hasKeyNow == keySelected
       IN /\ hostCalls' = [hostCalls EXCEPT ![c] = AnswerLast(@, hasKeyNow)]
          /\ IF RecheckFails(hasKeyNow)
             THEN /\ outcome' = [outcome EXCEPT ![c] = Throw(KeyRequiredError)]
                  /\ pc' = [pc EXCEPT ![c] = "done"]
             ELSE /\ outcome' = outcome
                  /\ pc' = [pc EXCEPT ![c] = "gatePassed"]
    /\ UNCHANGED <<hostVars, nextHandle, console, op, args, client, currentParts,
                   callerHistory, requests, settled>>

\* generateImage after `await ensureApiKey()`: getAI and generateContent
SendImageRequest(c) ==
    /\ pc[c] = "gatePassed"
    /\ LET ai == getAI
       IN /\ client' = [client EXCEPT ![c] = ai]
          /\ requests' = [requests EXCEPT ![c] = Append(@, ImageRequest(args[c], ai))]
    /\ nextHandle' = nextHandle + 1
    /\ pc' = [pc EXCEPT ![c] = "awaitVendor"]
    /\ UNCHANGED <<hostVars, console, op, args, currentParts, callerHistory,
                   hostCalls, settled, outcome>>

\* the three ungated generateContent operations, up to their await
Ungated(c, o, a, request) ==
    /\ pc[c] = "idle"
    /\ op' = [op EXCEPT ![c] = o]
    /\ args' = [args EXCEPT ![c] = a]
    /\ client' = [client EXCEPT ![c] = getAI]
    /\ nextHandle' = nextHandle + 1
    /\ requests' = [requests EXCEPT ![c] = Append(@, request)]
    /\ pc' = [pc EXCEPT ![c] = "awaitVendor"]
    /\ UNCHANGED <<hostVars, console, currentParts, callerHistory, hostCalls,
                   settled, outcome>>

EditImage(c, images, prompts) ==
    \E img \in images, p \in prompts :
        LET a == [base64Image |-> img, prompt |-> p]
        IN Ungated(c, "editImage", a, EditRequest(a, getAI))

GenerateSlideContent(c, topics, counts) ==
    \E tp \in topics, n \in counts :
        LET a == [topic |-> tp, count |-> n]
        IN Ungated(c, "generateSlideContent", a, SlideRequest(a, getAI))

AnalyzeStock(c, tickers) ==
    \E tk \in tickers :
        LET a == [ticker |-> tk]
        IN Ungated(c, "analyzeStock", a, StockRequest(a, getAI))

----------------------------------------------------------------------------
(* The vendor settles the request; the operation resumes *)

VendorFulfils(c, imageResponses, textResponses) ==
    /\ pc[c] = "awaitVendor"
    /\ \E r \in ResponsesOf(op[c], imageResponses, textResponses) :
          settled' = [settled EXCEPT ![c] = Fulfilled(r)]
    /\ pc' = [pc EXCEPT ![c] = "resume"]
    /\ UNCHANGED <<hostVars, nextHandle, console, op, args, client, currentParts,
                   callerHistory, hostCalls, requests, outcome>>

VendorRejects(c, errors) ==
    /\ pc[c] = "awaitVendor"
    /\ \E e \in errors : settled' = [settled EXCEPT ![c] = RejectedWith(e)]
    /\ pc' = [pc EXCEPT ![c] = "resume"]
    /\ UNCHANGED <<hostVars, nextHandle, console, op, args, client, currentParts,
                   callerHistory, hostCalls, requests, outcome>>

\* the response kept in one module-level slot that the first call's
\* settlement overwrites
Awaited_shared(c) == IF settled[1].status # "pending" THEN settled[1] ELSE settled[c]

\* the vendor promise this call awaits
Awaited(c) == settled[c]

Finish(c, result, logs) ==
    /\ outcome' = [outcome EXCEPT ![c] = result]
    /\ console' = IF logs THEN console \cup {c} ELSE console
    /\ pc' = [pc EXCEPT ![c] = "done"]
    /\ UNCHANGED <<hostVars, nextHandle, op, args, client, currentParts,
                   callerHistory, hostCalls, requests, settled>>

\* streamChat returns the promise of sendMessageStream
ResumeStreamChat(c) ==
    /\ pc[c] = "resume" /\ op[c] = "streamChat"
    /\ Finish(c, IF Awaited(c).status = "fulfilled"
                 THEN Return(Awaited(c).value)
                 ELSE Rejected(Awaited(c).reason), FALSE)

ResumeImage(c) ==
    /\ pc[c] = "resume" /\ op[c] \in {"generateImage", "editImage"}
    /\ Finish(c, IF Awaited(c).status = "fulfilled"
                 THEN Return(ExtractImages(Awaited(c).value))
                 ELSE Rejected(Awaited(c).reason), FALSE)

ResumeSlideContent(c) ==
    /\ pc[c] = "resume" /\ op[c] = "generateSlideContent"
    /\ IF Awaited(c).status = "fulfilled"
       THEN Finish(c, ParseSlides(Awaited(c).value), LogsParseFailure(Awaited(c).value))
       ELSE Finish(c, Rejected(Awaited(c).reason), FALSE)

ResumeStock(c) ==
    /\ pc[c] = "resume" /\ op[c] = "analyzeStock"
    /\ Finish(c, IF Awaited(c).status = "fulfilled"
                 THEN Return(Awaited(c).value)
                 ELSE Rejected(Awaited(c).reason), FALSE)

----------------------------------------------------------------------------
(* Inputs *)

ModelIds == {"gemini-3-flash-preview"}

MsgChars == {" ", "a"}
Messages == SeqsUpTo(MsgChars, MaxMsgLen)

MimeTypes == {PdfMime,
              <<"image", "/", "png">>,
              <<"image", "/", "jpeg">>,
              <<"text", "/", "plain">>,
              <<"image">>}
Attachments ==
    {[name |-> n, mimeType |-> m, data |-> <<"QUJD">>] :
        n \in {"a.docx", "b.csv"}, m \in MimeTypes}
AttachmentLists == SeqsUpTo(Attachments, MaxAtt)

HistoryParts == {<<TextPart(<<"hi">>)>>,
                 <<TextPart(<<"see">>), InlinePart(<<"image", "/", "png">>, <<"QUJD">>)>>}
Turns ==
    {[role |-> r, parts |-> ps] : r \in {"user", "model"}, ps \in HistoryParts}
    \cup {[role |-> "user", parts |-> <<TextPart(<<"hi">>)>>, id |-> "t1"],
          [role |-> "model", parts |-> <<TextPart(<<"yo">>)>>, timestamp |-> "12:00",
           isError |-> FALSE]}
Histories == SeqsUpTo(Turns, MaxHist)

Groundings == {[search |-> TRUE], [search |-> FALSE]}

Prompts == {<<"a", " ", "cat">>}
Sizes == {"1K", "2K"}
Base64Images == {<<"data:image/png;base64", ",", "QUJD">>,
                 <<"QUJD">>,
                 <<"data:", ",", "QUJD", ",", "tail">>}
Topics == {<<"AI">>}
Counts == {"5"}
Tickers == {<<"GOOG">>}

\* parts a response candidate may carry
ResponseParts ==
    {TextPart(<<"Here", " ", "you", " ", "go">>),
     InlinePart(<<"image", "/", "png">>, <<"AAAA">>),
     InlinePart(<<"image", "/", "png">>, <<"BBBB">>),
     InlinePart(<<"image", "/", "png">>, <<>>),
     [inlineData |-> [mimeType |-> <<"image", "/", "png">>]],
     InlinePart(<<"audio", "/", "wav">>, <<"CCCC">>),
     [thought |-> TRUE]}

Candidate(content) == [content |-> content, finishReason |-> "STOP"]
OtherCandidate ==
    Candidate([role |-> "model",
               parts |-> <<InlinePart(<<"image", "/", "png">>, <<"ZZZZ">>)>>])

FirstCandidates ==
    {[finishReason |-> "SAFETY"], Candidate([role |-> "model"])}
    \cup {Candidate([role |-> "model", parts |-> ps]) :
            ps \in SeqsUpTo(ResponseParts, MaxParts)}

ImageResponses ==
    {[promptFeedback |-> "BLOCKED"], [candidates |-> <<>>]}
    \cup {[candidates |-> <<c>>] : c \in FirstCandidates}
    \cup {[candidates |-> <<c, OtherCandidate>>] : c \in FirstCandidates}

JsonTokens == {"{", "}", "[", "]", "null", " ", "x"}
TextResponses ==
    {[usageMetadata |-> "none"]}
    \cup {[text |-> t] : t \in SeqsUpTo(JsonTokens, MaxTextLen)}

\* the few responses used where calls run concurrently
FewImageResponses ==
    {[candidates |-> <<Candidate([role |-> "model",
         parts |-> <<TextPart(<<"Here">>),
                     InlinePart(<<"image", "/", "png">>, <<"AAAA">>)>>])>>]}
FewTextResponses == {[text |-> <<"{", "}">>], [text |-> <<"x">>]}

----------------------------------------------------------------------------
(* Specifications *)

\* all five operations, invoked concurrently
Next ==
    \E c \in Calls :
        \/ StreamChat(c, ModelIds, {<<>>}, {<<"a">>}, {<<>>}, {[search |-> TRUE]})
        \/ GenerateImage(c, Prompts, {"1K"})
        \/ HasKeyResolved(c)
        \/ DialogResolved(c)
        \/ RecheckResolved(c)
        \/ SendImageRequest(c)
        \/ EditImage(c, {<<"data:image/png;base64", ",", "QUJD">>}, Prompts)
        \/ GenerateSlideContent(c, Topics, Counts)
        \/ AnalyzeStock(c, Tickers)
        \/ VendorFulfils(c, FewImageResponses, FewTextResponses)
        \/ VendorRejects(c, {[name |-> "ApiError", message |-> "503 UNAVAILABLE"]})
        \/ ResumeStreamChat(c)
        \/ ResumeImage(c)
        \/ ResumeSlideContent(c)
        \/ ResumeStock(c)

\* the surface is either missing or complete where calls run concurrently
InitConcurrent == Init /\ aistudio \in {NoSurface, FullSurface}

Spec == InitConcurrent /\ [][Next]_vars

\* each of the five operations, one call at a time, over every surface
NextEach ==
    \/ StreamChat(1, ModelIds, {<<>>}, {<<"a">>}, {<<>>}, Groundings)
    \/ GenerateImage(1, Prompts, Sizes)
    \/ HasKeyResolved(1)
    \/ DialogResolved(1)
    \/ RecheckResolved(1)
    \/ SendImageRequest(1)
    \/ EditImage(1, Base64Images, Prompts)
    \/ GenerateSlideContent(1, Topics, Counts)
    \/ AnalyzeStock(1, Tickers)
    \/ VendorFulfils(1, FewImageResponses, FewTextResponses)
    \/ VendorRejects(1, VendorErrors)
    \/ ResumeStreamChat(1)
    \/ ResumeImage(1)
    \/ ResumeSlideContent(1)
    \/ ResumeStock(1)

SpecEach == Init /\ [][NextEach]_vars

\* the host surface plays no part in the ungated operations
InitNoSurface == Init /\ aistudio = NoSurface

\* one streamChat call over every message and attachment list
NextChat ==
    \/ StreamChat(1, ModelIds, {<<>>}, Messages, AttachmentLists, {[search |-> TRUE]})
    \/ VendorFulfils(1, {}, {})
    \/ VendorRejects(1, VendorErrors)
    \/ ResumeStreamChat(1)

SpecChat == InitNoSurface /\ [][NextChat]_vars

\* one streamChat call over every history
NextHistory ==
    \/ StreamChat(1, ModelIds, Histories, {<<"a">>, <<>>}, {<<>>}, Groundings)
    \/ VendorFulfils(1, {}, {})
    \/ VendorRejects(1, VendorErrors)
    \/ ResumeStreamChat(1)

SpecHistory == InitNoSurface /\ [][NextHistory]_vars

\* one generateImage or editImage call over every response
NextImages ==
    \/ GenerateImage(1, Prompts, Sizes)
    \/ HasKeyResolved(1)
    \/ DialogResolved(1)
    \/ RecheckResolved(1)
    \/ SendImageRequest(1)
    \/ EditImage(1, Base64Images, Prompts)
    \/ VendorFulfils(1, ImageResponses, {})
    \/ VendorRejects(1, VendorErrors)
    \/ ResumeImage(1)

SpecImages == Init /\ [][NextImages]_vars

\* one generateSlideContent call over every response text
NextSlides ==
    \/ GenerateSlideContent(1, Topics, Counts)
    \/ VendorFulfils(1, {}, TextResponses)
    \/ VendorRejects(1, VendorErrors)
    \/ ResumeSlideContent(1)

SpecSlides == InitNoSurface /\ [][NextSlides]_vars

----------------------------------------------------------------------------
(* Properties *)

Done(c) == pc[c] = "done"
Succeeded(c) == Done(c) /\ settled[c].status = "fulfilled"
Failed(c) == Done(c) /\ settled[c].status = "rejected"
Range(s) == {s[i] : i \in 1..Len(s)}

\* C1: generateImage with the full host surface, no key selected and a re-check
\* that still reports no key fails with the 'API Key selection is required'
\* error, and that call has issued no vendor request and built no client.
C1_DeclinedFailsBeforeNetwork ==
    \A c \in Calls :
        (/\ op[c] = "generateImage"
         /\ aistudio = FullSurface
         /\ Len(hostCalls[c]) = 3
         /\ hostCalls[c][1] = Answered("hasSelectedApiKey", FALSE)
         /\ hostCalls[c][3] = Answered("hasSelectedApiKey", FALSE))
        => /\ Done(c)
           /\ outcome[c] = Throw(Error("API Key selection is required for this feature."))
           /\ requests[c] = <<>>
           /\ settled[c] = Unsettled
           /\ client[c] = NoClient

C1_Witness ==
    \E c \in Calls :
        /\ op[c] = "generateImage"
        /\ Len(hostCalls[c]) = 3
        /\ hostCalls[c][3] = Answered("hasSelectedApiKey", FALSE)
        /\ outcome[c].kind = "throw"

\* C2: generateImage without the complete host surface never calls
\* hasSelectedApiKey or openSelectKey, never fails with the key-selection
\* error, and goes on to the vendor request: it is past the gate at once, has
\* issued its one request whenever it is beyond the gate, and fails only with
\* the vendor's own rejection.
C2_AbsentSurfaceProceeds ==
    \A c \in Calls :
        (op[c] = "generateImage" /\ ~(aistudio.present /\ aistudio.fns = HostFns))
        => /\ hostCalls[c] = <<>>
           /\ pc[c] \in {"gatePassed", "awaitVendor", "resume", "done"}
           /\ pc[c] # "gatePassed" => Len(requests[c]) = 1
           /\ outcome[c] # Throw(KeyRequiredError)
           /\ outcome[c].kind = "throw" =>
                 settled[c] = RejectedWith(outcome[c].error)

C2_Witness ==
    /\ aistudio.present
    /\ aistudio.fns = {"hasSelectedApiKey"}
    /\ op[1] = "generateImage"
    /\ Succeeded(1)

\* C10: the gate of one generateImage call is hasSelectedApiKey first, then
\* openSelectKey at most once and only after a "no key" answer, then exactly one
\* re-check; the vendor request is issued only when the surface is incomplete
\* or the call's latest hasSelectedApiKey answer was "key selected".
C10_GateProtocol ==
    \A c \in Calls :
        LET h == hostCalls[c]
        IN /\ op[c] # "generateImage" => h = <<>>
           /\ Len(h) <= 3
           /\ Len(h) >= 1 => h[1].fn = "hasSelectedApiKey"
           /\ Len(h) >= 2 => /\ h[1] = Answered("hasSelectedApiKey", FALSE)
                             /\ h[2].fn = "openSelectKey"
           /\ Len(h) = 2 => ~Has(h[2], "result")
           /\ Len(h) = 3 => /\ Has(h[2], "result")
                            /\ h[3].fn = "hasSelectedApiKey"
           /\ (op[c] = "generateImage" /\ requests[c] # <<>>) =>
                 \/ aistudio # FullSurface /\ h = <<>>
                 \/ h # <<>> /\ h[Len(h)] = Answered("hasSelectedApiKey", TRUE)
           /\ (op[c] = "generateImage" /\ aistudio = FullSurface /\ h = <<>>) =>
                 requests[c] = <<>>

C10_Witness ==
    \E c \in Calls :
        /\ op[c] = "generateImage"
        /\ Len(hostCalls[c]) = 3
        /\ hostCalls[c][3] = Answered("hasSelectedApiKey", TRUE)
        /\ Len(requests[c]) = 1

\* C8: every call issues at most one vendor request; a call whose request was
\* rejected ends by throwing exactly the vendor's rejection reason, having
\* issued that one request and no other.
C8_OneRequestNoRetry ==
    \A c \in Calls :
        /\ Len(requests[c]) <= 1
        /\ settled[c].status # "pending" => Len(requests[c]) = 1
        /\ Failed(c) => /\ outcome[c] = [kind |-> "throw", error |-> settled[c].reason]
                        /\ Len(requests[c]) = 1

C8_Witness ==
    /\ Failed(1)
    /\ op[1] = "generateSlideContent"
    /\ settled[1].reason = [name |-> "TypeError", message |-> "Failed to fetch"]
    /\ outcome[1].kind = "throw"

\* what the operation settles with when it runs alone on this vendor settlement
SoloOutcome(o, s) ==
    IF s.status = "rejected" THEN Throw(s.reason)
    ELSE IF s.status = "pending" THEN Throw(KeyRequiredError)
    ELSE CASE o \in {"generateImage", "editImage"} -> Return(ExtractImages(s.value))
           [] o = "generateSlideContent" -> ParseSlides(s.value)
           [] OTHER -> Return(s.value)

Occurs(s, t) ==
    \E k \in 0..(Len(t) - Len(s)) : SubSeq(t, k + 1, k + Len(s)) = s

Blank(message) == \A i \in 1..Len(message) : message[i] \in {" ", "\n"}

\* C3: streamChat's currentParts holds one part per attachment, in attachment
\* order: application/pdf as inline data of type application/pdf, image/* as
\* inline data of the attachment's own type, anything else as a text part that
\* carries the attachment's name and data; then the message as the last part
\* when it is not blank, and no prompt part when it is blank.
C3_CurrentPartsFollowAttachments ==
    op[1] = "streamChat" =>
        LET atts == args[1].attachments
            msg == args[1].message
            parts == currentParts[1]
            n == Len(atts)
        IN /\ Len(parts) = n + (IF Blank(msg) THEN 0 ELSE 1)
           /\ \A i \in 1..n :
                LET mt == atts[i].mimeType
                IN IF mt = <<"application", "/", "pdf">>
                   THEN parts[i] = [inlineData |->
                            [mimeType |-> <<"application", "/", "pdf">>,
                             data |-> atts[i].data]]
                   ELSE IF Len(mt) >= 2 /\ mt[1] = "image" /\ mt[2] = "/"
                   THEN parts[i] = [inlineData |->
                            [mimeType |-> mt, data |-> atts[i].data]]
                   ELSE /\ DOMAIN parts[i] = {"text"}
                        /\ atts[i].name \in Range(parts[i].text)
                        /\ Occurs(atts[i].data, parts[i].text)
           /\ ~Blank(msg) => parts[n + 1] = [text |-> msg]

C3_Witness ==
    /\ op[1] = "streamChat"
    /\ Len(args[1].attachments) = 2
    /\ args[1].attachments[1].mimeType = <<"text", "/", "plain">>
    /\ args[1].attachments[2].mimeType = <<"application", "/", "pdf">>
    /\ args[1].message = <<" ", "a">>
    /\ Len(currentParts[1]) = 3
    /\ Done(1)

\* C7: the history of the outgoing chat request has the length of the input
\* history, its i-th entry has the fields role and parts only, with the values
\* of the i-th input turn, and the caller's array is as it was passed in.
C7_HistoryProjected ==
    (op[1] = "streamChat" /\ requests[1] # <<>>) =>
        LET in == args[1].history
            out == requests[1][1].history
        IN /\ Len(out) = Len(in)
           /\ \A i \in 1..Len(in) :
                /\ DOMAIN out[i] = {"role", "parts"}
                /\ out[i].role = in[i].role
                /\ out[i].parts = in[i].parts
           /\ callerHistory[1] = in

C7_Witness ==
    /\ op[1] = "streamChat"
    /\ Len(args[1].history) = 2
    /\ Has(args[1].history[1], "id")
    /\ Has(args[1].history[2], "timestamp")
    /\ Len(requests[1][1].history) = 2
    /\ Done(1)

HasInline(part) == "inlineData" \in DOMAIN part

HasNonEmptyInline(part) ==
    /\ "inlineData" \in DOMAIN part
    /\ "data" \in DOMAIN part.inlineData
    /\ part.inlineData.data # <<>>

InlineDataOf(part) ==
    IF "data" \in DOMAIN part.inlineData THEN part.inlineData.data ELSE <<"undefined">>

PartsOfFirst(response) ==
    IF "candidates" \in DOMAIN response /\ response.candidates # <<>>
    THEN LET first == response.candidates[1]
         IN IF "content" \in DOMAIN first /\ "parts" \in DOMAIN first.content
            THEN first.content.parts
            ELSE <<>>
    ELSE <<>>

ImageCall(c) == op[c] \in {"generateImage", "editImage"} /\ Succeeded(c)

\* C4 as stated: one entry per inline fragment of the first candidate,
\* whatever its data, in order.
C4_Original ==
    ImageCall(1) =>
        LET frags == SelectSeq(PartsOfFirst(settled[1].value), HasInline)
            items == outcome[1].value.items
        IN /\ Len(items) = Len(frags)
           /\ \A i \in 1..Len(frags) :
                 items[i] = <<"data:image/png;base64,">> \o InlineDataOf(frags[i])

\* C4 (amended): the returned collection has one entry per part of the first
\* candidate that carries inlineData with non-empty data, in the parts' order,
\* each entry 'data:image/png;base64,' followed by that data; every other part
\* and every other candidate contributes nothing.
C4_NonEmptyFragmentsInOrder ==
    ImageCall(1) =>
        LET frags == SelectSeq(PartsOfFirst(settled[1].value), HasNonEmptyInline)
            items == outcome[1].value.items
        IN /\ Len(items) = Len(frags)
           /\ \A i \in 1..Len(frags) :
                 items[i] = <<"data:image/png;base64,">> \o frags[i].inlineData.data

C4_Witness ==
    /\ ImageCall(1)
    /\ "candidates" \in DOMAIN settled[1].value
    /\ Len(settled[1].value.candidates) = 2
    /\ PartsOfFirst(settled[1].value) =
          <<[inlineData |-> [mimeType |-> <<"image", "/", "png">>, data |-> <<"BBBB">>]],
            [inlineData |-> [mimeType |-> <<"image", "/", "png">>, data |-> <<"AAAA">>]]>>
    /\ Len(outcome[1].value.items) = 2

\* C5: a successful generateImage or editImage returns a collection, never
\* null; it is empty when the response has no candidates, the first candidate
\* has no content or no parts, or no part of it is an inline fragment.
C5_AlwaysACollection ==
    ImageCall(1) =>
        /\ outcome[1].kind = "return"
        /\ outcome[1].value.t = "array"
        /\ (\A i \in 1..Len(PartsOfFirst(settled[1].value)) :
               ~HasInline(PartsOfFirst(settled[1].value)[i]))
           => outcome[1].value = [t |-> "array", items |-> <<>>]

C5_Witness ==
    /\ ImageCall(1)
    /\ op[1] = "editImage"
    /\ "candidates" \in DOMAIN settled[1].value
    /\ Len(settled[1].value.candidates) = 1
    /\ "content" \notin DOMAIN settled[1].value.candidates[1]
    /\ outcome[1].value.items = <<>>

SlideCall == op[1] = "generateSlideContent" /\ Succeeded(1)
NoText == "text" \notin DOMAIN settled[1].value \/ settled[1].value.text = <<>>
ValidJson == ~NoText /\ JsonParse(settled[1].value.text).ok
InvalidJson == ~NoText /\ ~JsonParse(settled[1].value.text).ok

\* C6 (amended): generateSlideContent returns null without raising when the
\* response has no text, returns the parsed value when the text is valid JSON,
\* and raises 'Failed to generate valid slide structure.' (after logging) when
\* it is not; a parse failure is never reported as null and an empty response
\* never as an error. The parsed value is itself null for the JSON text null.
C6_ThreeOutcomes ==
    SlideCall =>
        /\ NoText => outcome[1] = Return(Null) /\ 1 \notin console
        /\ ValidJson => outcome[1] = Return(JsonParse(settled[1].value.text).value)
                        /\ 1 \notin console
        /\ InvalidJson =>
              /\ outcome[1] = Throw(Error("Failed to generate valid slide structure."))
              /\ 1 \in console
        /\ outcome[1] = Return(Null) =>
              NoText \/ (ValidJson /\ JsonParse(settled[1].value.text).value = Null)
        /\ outcome[1].kind = "throw" => InvalidJson

\* C6 as stated: the three cases lead to three outcomes the caller can tell
\* apart, so null is returned only for a response without text.
C6_Original ==
    SlideCall =>
        /\ C6_ThreeOutcomes
        /\ outcome[1] = Return(Null) <=> NoText

C6_Witness ==
    /\ SlideCall
    /\ ~NoText
    /\ settled[1].value.text = <<"[", " ", "x">>
    /\ outcome[1].kind = "throw"
    /\ 1 \in console

====
